---- MODULE Spec2Model ----
(***************************************************************************)
(* Model of npm-offline-packager: the dependency resolver and the tarball  *)
(* download (lib/fetch-packages.js), the caches (lib/cache.js), the        *)
(* publisher (lib/npm-publish.js) and the two commands of cli.js.          *)
(*                                                                         *)
(* Strings are sequences of tokens: "^1.0.0" is <<"^", "1.0.0">>,          *)
(* "latest" is <<"latest">>.  Ordered JS objects (dependency maps) are     *)
(* sequences of <<key, value>> pairs with unique keys, in key order.       *)
(***************************************************************************)
EXTENDS Integers, Sequences, FiniteSets, TLC

VARIABLES
    distLatest,        \* registry: the "latest" dist-tag of package "a"
    registry,          \* registry: manifest body per published (name, version), fixed once served
    rootManifest,      \* the manifest object handed to the top-level resolveDependencies
    resolvedPackages,  \* lib/cache.js InMemoryCache.cache: the set of keys that are true
    options,           \* the shared, mutable options object of one top-level call
    stack,             \* activation records of resolveDependencies, innermost last
    status,            \* promise state of the top-level call
    result,            \* value the top-level call fulfilled with
    runs,              \* number of top-level calls started so far
    startMemo,         \* history: the memo as the running call found it
    faults,            \* history: transport faults met so far
    edgeLog,           \* history: what happened to every edge looked at in the running call
    lastFetch,         \* history: the getPackageManifest call that settled last in the level being fetched
    dbCache,           \* lib/cache.js DBCache: the documents of the datastore, oldest first
    download,          \* one downloadPackages call
    publish,           \* one publishFolder call
    naming,            \* one tarball file name, written and read back
    cli                \* one run of the command line tool

resolverVars == <<distLatest, registry, rootManifest, resolvedPackages, options, stack,
                  status, result, runs, startMemo, faults, edgeLog, lastFetch>>

vars == <<distLatest, registry, rootManifest, resolvedPackages, options, stack, status,
          result, runs, startMemo, faults, edgeLog, lastFetch,
          dbCache, download, publish, naming, cli>>

(***************************************************************************)
(* Bounds                                                                  *)
(***************************************************************************)
MaxRuns == 2      \* top-level resolveDependencies calls per behaviour
MaxFaults == 1    \* transport faults the environment injects per behaviour

(***************************************************************************)
(* Strings and generic helpers                                             *)
(***************************************************************************)
Undefined == [undefined |-> TRUE]
Unknown == [unknown |-> TRUE]

Latest == <<"latest">>

RECURSIVE IndexOf(_, _, _)
IndexOf(s, tok, i) ==
    IF i > Len(s) THEN 0
    ELSE IF s[i] = tok THEN i
    ELSE IndexOf(s, tok, i + 1)

\* String.prototype.replace(tok, ''): only the first occurrence is removed
Replace(s, tok) ==
    LET i == IndexOf(s, tok, 1)
    IN  IF i = 0 THEN s ELSE SubSeq(s, 1, i - 1) \o SubSeq(s, i + 1, Len(s))

Range(s) == { s[i] : i \in 1..Len(s) }

\* `const x = v; ... x ...`: v is computed once, where it is declared, and
\* Body sees its value
With(v, Body(_)) == CHOOSE r \in { Body(x) : x \in {v} } : TRUE

SelectFn(s, Test(_)) ==
    LET F[i \in 0..Len(s)] ==
            IF i = 0 THEN << >>
            ELSE IF Test(s[i]) THEN Append(F[i - 1], s[i]) ELSE F[i - 1]
    IN  F[Len(s)]

(***************************************************************************)
(* semver (external library), on the version tokens of the model           *)
(***************************************************************************)
FullVersions == {"1.0.0", "1.1.0"}
NumericTokens == FullVersions \cup {"1.1"}

VTuple(v) ==
    CASE v = "1.0.0" -> <<1, 0, 0>>
      [] v = "1.1.0" -> <<1, 1, 0>>
      [] v = "1.1"   -> <<1, 1, 0>>

TupleToken(t) == IF t = <<1, 0, 0>> THEN "1.0.0" ELSE "1.1.0"

\* semver.valid(s): s is exactly one full version
SemverValid(s) == Len(s) = 1 /\ s[1] \in FullVersions

\* semver.coerce(s): the first version-looking part of s, completed to
\* major.minor.patch; null (Undefined) when there is none
SemverCoerce(s) ==
    LET nums == SelectFn(s, LAMBDA t : t \in NumericTokens)
    IN  IF nums = << >> THEN Undefined
        ELSE [version |-> <<TupleToken(VTuple(nums[1]))>>]

VGeq(a, b) ==
    \/ a[1] > b[1]
    \/ a[1] = b[1] /\ a[2] > b[2]
    \/ a[1] = b[1] /\ a[2] = b[2] /\ a[3] >= b[3]

\* semver.satisfies(v, range) for the range shapes that reach the registry
Satisfies(v, range) ==
    LET t == VTuple(v)
    IN  CASE Len(range) = 1 /\ range[1] \in FullVersions -> v = range[1]
          [] Len(range) = 2 /\ range[1] = "^" /\ range[2] \in FullVersions ->
                 t[1] = VTuple(range[2])[1] /\ VGeq(t, VTuple(range[2]))
          [] Len(range) = 2 /\ range[1] = "~" /\ range[2] \in FullVersions ->
                 /\ t[1] = VTuple(range[2])[1]
                 /\ t[2] = VTuple(range[2])[2]
                 /\ VGeq(t, VTuple(range[2]))
          [] OTHER -> FALSE

(***************************************************************************)
(* Ordered maps (JS objects with string keys) and lodash merge             *)
(***************************************************************************)
Keys(m) == { m[i][1] : i \in 1..Len(m) }

Lookup(m, k) == (CHOOSE i \in 1..Len(m) : m[i][1] = k)

Get(m, k) == m[Lookup(m, k)][2]

\* object[k] = v: an existing key keeps its place, a new key goes last
Put(m, k, v) ==
    IF k \in Keys(m) THEN [m EXCEPT ![Lookup(m, k)] = <<k, v>>]
    ELSE Append(m, <<k, v>>)

\* assigning every own key of one source, in the source's key order
RECURSIVE MergeOne(_, _, _)
MergeOne(object, source, i) ==
    IF i > Len(source) THEN object
    ELSE With(Put(object, source[i][1], source[i][2]),
              LAMBDA assigned : MergeOne(assigned, source, i + 1))

\* a merge that assigns its sources last to first
MergeReversed(object, s1, s2, s3) ==
    MergeOne(MergeOne(MergeOne(object, s3, 1), s2, 1), s1, 1)

\* lodash merge(object, s1, s2, s3): the sources are assigned in argument
\* order INTO object, which is returned
Merge(object, s1, s2, s3) ==
    With(MergeOne(object, s1, 1), LAMBDA o1 :
    With(MergeOne(o1, s2, 1), LAMBDA o2 :
         MergeOne(o2, s3, 1)))

(***************************************************************************)
(* getManifestDependencies                                                 *)
(***************************************************************************)
\* lines 88-93: the merged map; it IS manifest.dependencies afterwards
MergedPackages(manifest, opts) ==
    Merge(manifest.dependencies,
          IF opts.dev THEN manifest.devDependencies ELSE << >>,
          IF opts.peer THEN manifest.peerDependencies ELSE << >>,
          IF opts.optional THEN manifest.optionalDependencies ELSE << >>)

\* the manifest object after the call
ManifestAfterMerge(manifest, opts) ==
    [manifest EXCEPT !.dependencies = MergedPackages(manifest, opts)]

\* lines 96-103: the version of one edge
EdgeVersion(raw) ==
    With(Replace(Replace(raw, "^"), "~"), LAMBDA cleanVersion :
        IF ~SemverValid(cleanVersion)
        THEN With(SemverCoerce(cleanVersion), LAMBDA coerceVersion :
                 IF coerceVersion = Undefined THEN Latest
                 ELSE coerceVersion.version)
        ELSE raw)

\* lines 95-109
GetManifestDependencies(manifest, opts) ==
    With(MergedPackages(manifest, opts), LAMBDA packages :
        [i \in 1..Len(packages) |->
            [name |-> packages[i][1], version |-> EdgeVersion(packages[i][2])]])

(***************************************************************************)
(* The registry as pacote sees it                                          *)
(***************************************************************************)
Names == {"a", "b", "c", "d"}

\* published versions; "d" is not in the registry
Published(name) ==
    CASE name = "a" -> {"1.0.0", "1.1.0"}
      [] name = "b" -> {"1.0.0"}
      [] name = "c" -> {"1.0.0"}
      [] OTHER -> {}

Nodes == { nv \in Names \X FullVersions : nv[2] \in Published(nv[1]) }

DistTagLatest(name) == IF name = "a" THEN distLatest ELSE "1.0.0"

MaxVersion(S) == CHOOSE v \in S : \A w \in S : VGeq(VTuple(v), VTuple(w))

Err(code) == [ok |-> FALSE, code |-> code]

\* npm-pick-manifest: the version pacote.manifest(`${name}@${spec}`) serves.
\* spec << >> is the unqualified name, which means the latest tag.
PacotePick(name, spec) ==
    IF Published(name) = {} THEN Err("E404")
    ELSE IF spec = << >> \/ spec = Latest
         THEN [ok |-> TRUE, version |-> DistTagLatest(name)]
    ELSE LET sat == { v \in Published(name) : Satisfies(v, spec) }
         IN  IF sat = {} THEN [ok |-> FALSE, code |-> "ETARGET",
                               distTags |-> [latest |-> DistTagLatest(name)]]
             ELSE IF DistTagLatest(name) \in sat
                  THEN [ok |-> TRUE, version |-> DistTagLatest(name)]
             ELSE [ok |-> TRUE, version |-> MaxVersion(sat)]

\* one pacote.manifest request under a transport condition:
\* "det" is the registry's own answer, anything else is the error code met
ManifestRequest(name, spec, fault) ==
    IF fault = "det" THEN PacotePick(name, spec) ELSE Err(fault)

\* the error object of a failed packument request: another object than the
\* error of a manifest request, whatever its code
PackumentErr(code) == [ok |-> FALSE, code |-> code, request |-> "packument"]

\* pacote.packument(name): only its dist-tags are read
PackumentRequest(name, fault) ==
    IF fault # "det" THEN PackumentErr(fault)
    ELSE IF Published(name) = {} THEN PackumentErr("E404")
    ELSE [ok |-> TRUE, distTags |-> [latest |-> DistTagLatest(name)]]

(***************************************************************************)
(* getPackageManifest                                                      *)
(***************************************************************************)
\* new Error(`${packageName}@${packageVersion} not found`)
NotFoundError(packageName, packageVersion) ==
    [ok |-> FALSE, code |-> "none",
     message |-> <<packageName, "@">> \o packageVersion \o <<" not found">>]

\* a .catch that retries a not-found whatever version was asked for
CatchRetryAlways(error, packageName, packageVersion) ==
    IF error.code = "ETARGET"
    THEN [retry |-> TRUE, spec |-> <<error.distTags.latest>>]
    ELSE IF error.code = "E404"
    THEN [retry |-> TRUE, spec |-> << >>]
    ELSE [retry |-> FALSE, reject |-> error]

\* a .catch that answers every error other than E404 as it answers ETARGET
CatchRetryLatestTag(error, packageName, packageVersion) ==
    IF error.code = "E404"
    THEN IF packageVersion # Latest
         THEN [retry |-> TRUE, spec |-> << >>]
         ELSE [retry |-> FALSE, reject |-> NotFoundError(packageName, packageVersion)]
    ELSE [retry |-> TRUE, spec |-> Latest]

\* lines 173-186: what the .catch of the first request does with its error;
\* the answer names the one further request it makes, if any
CatchManifestError(error, packageName, packageVersion) ==
    IF error.code = "ETARGET"
    THEN [retry |-> TRUE, spec |-> <<error.distTags.latest>>]
    ELSE IF error.code = "E404"
    THEN IF packageVersion # Latest
         THEN [retry |-> TRUE, spec |-> << >>]
         ELSE [retry |-> FALSE, reject |-> NotFoundError(packageName, packageVersion)]
    ELSE [retry |-> FALSE, reject |-> error]

\* line 187
WantsPackument(packageVersion) == packageVersion # Latest

\* an isLatest that is true whenever the tag listing was fetched
IsLatestAlways(version, packumentAsked, packument) == TRUE

\* lines 189-197
IsLatestOf(version, packumentAsked, packument) ==
    IF packumentAsked THEN packument.distTags.latest = version ELSE TRUE

\* lines 168-198.  env gives the transport condition of the first manifest
\* request, of the retry and of the packument request, and which of the two
\* elements of Promise.all rejects first when both reject.  The answer
\* carries the requests made (in order), the settled elements of Promise.all
\* and the settled promise of getPackageManifest.
GetPackageManifest(packageName, packageVersion, env) ==
    With(ManifestRequest(packageName, packageVersion, env.first), LAMBDA first :
    With(IF first.ok THEN [retry |-> FALSE]
         ELSE CatchManifestError(first, packageName, packageVersion),
         LAMBDA caught :
    With(IF caught.retry
         THEN ManifestRequest(packageName, caught.spec, env.retry)
         ELSE Undefined,
         LAMBDA second :
    With(IF first.ok THEN first
         ELSE IF caught.retry THEN second
         ELSE caught.reject,
         LAMBDA manifestOutcome :
    With(WantsPackument(packageVersion), LAMBDA asked :
    With(IF asked THEN PackumentRequest(packageName, env.packument)
         ELSE [ok |-> TRUE],
         LAMBDA packument :
        [name |-> packageName,
         version |-> packageVersion,
         requests |-> IF caught.retry THEN <<packageVersion, caught.spec>>
                      ELSE <<packageVersion>>,
         first |-> first,
         second |-> second,
         manifestOutcome |-> manifestOutcome,
         packumentAsked |-> asked,
         packument |-> packument,
         outcome |->
            IF ~manifestOutcome.ok /\ ~packument.ok
            THEN IF env.race = "manifest" THEN manifestOutcome ELSE packument
            ELSE IF ~manifestOutcome.ok THEN manifestOutcome
            ELSE IF ~packument.ok THEN packument
            ELSE [ok |-> TRUE,
                  version |-> manifestOutcome.version,
                  isLatest |-> IsLatestOf(manifestOutcome.version, asked, packument)]]
    ))))))

\* transport conditions; a condition other than "det" is a fault
Envs ==
    [first : {"det", "E404", "EOTHER"}, retry : {"det"},
     packument : {"det", "EOTHER"}, race : {"manifest", "packument"}]

NumFaults(env) ==
    (IF env.first # "det" THEN 1 ELSE 0) + (IF env.retry # "det" THEN 1 ELSE 0)
        + (IF env.packument # "det" THEN 1 ELSE 0)

\* a fault can only be met by a request that is made, and there is a race
\* only between two rejections
EnvFits(env, r) ==
    /\ env.retry # "det" => Len(r.requests) = 2
    /\ env.packument # "det" => r.packumentAsked
    /\ env.race # "manifest" => ~r.manifestOutcome.ok /\ ~r.packument.ok

\* a rejected promise among the mapped ones
Rejection == [rejected |-> TRUE]

\* a handler that prints the error and throws it again
CatchRethrow(outcome, manifest) ==
    IF outcome.ok THEN manifest ELSE Rejection

\* line 136, .catch(handlerError): handlerError prints and returns undefined
CatchHandlerError(outcome, manifest) ==
    IF outcome.ok THEN manifest ELSE Undefined

(***************************************************************************)
(* lib/cache.js InMemoryCache                                              *)
(***************************************************************************)
\* `${packageName}@${packageVersion}`
Key(packageName, packageVersion) == <<packageName, "@">> \o packageVersion

\* a set() that stores nothing
CacheSetNothing(cache, packageName, packageVersion) == cache

CacheSet(cache, packageName, packageVersion) ==
    cache \cup {Key(packageName, packageVersion)}

\* set() for each manifest of a list, in order
RECURSIVE CacheSetAll(_, _, _)
CacheSetAll(cache, manifests, i) ==
    IF i > Len(manifests) THEN cache
    ELSE CacheSetAll(CacheSet(cache, manifests[i].name, manifests[i].version),
                     manifests, i + 1)

\* a get() that looks at the package name alone
CacheGetByName(cache, packageName, packageVersion) ==
    \E k \in cache : k[1] = packageName

CacheGet(cache, packageName, packageVersion) ==
    Key(packageName, packageVersion) \in cache

CacheClean == {}

(***************************************************************************)
(* Inputs: manifests the registry may serve and root manifests             *)
(***************************************************************************)
Body(deps, dev, peer, opt) ==
    [dependencies |-> deps, devDependencies |-> dev,
     peerDependencies |-> peer, optionalDependencies |-> opt]

ManifestMenu ==
    { Body(<< >>, << >>, << >>, << >>),
      Body(<< <<"b", <<"1.0.0">>>>, <<"a", <<"^", "1.0.0">>>> >>,
           << <<"c", <<"~", "1.1">>>> >>, << >>, << >>),
      Body(<< <<"a", <<"~", "1.0.0">>>>, <<"d", <<"1.0.0">>>> >>, << >>, << >>,
           << <<"a", <<"junk">>>>, <<"c", <<"latest">>>> >>) }

RootMenu ==
    { Body(<< <<"a", <<"1.0.0">>>> >>, << >>, << >>, << >>),
      Body(<< <<"a", <<"^", "1.0.0">>>>, <<"d", <<"latest">>>>, <<"c", <<"1.0.0">>>> >>,
           << <<"a", <<"~", "1.0.0">>>> >>, << >>, << >>),
      Body(<< <<"b", <<"junk">>>>, <<"a", <<"1.1.0">>>> >>, << >>,
           << <<"c", <<"~", "1.1">>>> >>, << <<"b", <<"1.0.0">>>> >>) }

\* the dev / peer / optional switches of a call
FlagMenu ==
    { [dev |-> FALSE, peer |-> FALSE, optional |-> FALSE],
      [dev |-> TRUE, peer |-> FALSE, optional |-> FALSE],
      [dev |-> TRUE, peer |-> TRUE, optional |-> TRUE] }

(***************************************************************************)
(* resolveDependencies: activation records                                 *)
(***************************************************************************)
Pending == [pending |-> TRUE]

RootId == <<"root">>

Top == stack[Len(stack)]

\* options.progress is a fraction
Zero == [num |-> 0, den |-> 1]

\* p + 1 / n
AddFraction(p, n) == [num |-> p.num * n + p.den, den |-> p.den * n]

\* lines 120-136: entering resolveDependencies up to the moment the manifest
\* requests of the edges that pass the first filter are under way
Enter(id, manifest, opts, cache) ==
    With(GetManifestDependencies(manifest, opts), LAMBDA dependencies :
    With(SelectFn(dependencies, LAMBDA d : ~CacheGet(cache, d.name, d.version)),
         LAMBDA toFetch :
        [id |-> id,
         manifest |-> ManifestAfterMerge(manifest, opts),
         dependencies |-> dependencies,
         toFetch |-> toFetch,
         settled |-> [i \in 1..Len(toFetch) |-> Pending],
         survivors |-> << >>,
         idx |-> 1,
         packages |-> << >>,
         pc |-> IF Len(dependencies) = 0 THEN "return" ELSE "fetch"]))

\* edges the first filter (line 135) leaves out
SkippedEdges(frame) ==
    { [from |-> frame.id, name |-> d.name, version |-> d.version,
       kind |-> "skipped", to |-> d.version] :
        d \in { e \in Range(frame.dependencies) :
                  \A i \in 1..Len(frame.toFetch) : frame.toFetch[i] # e } }

\* lines 131-132
EnterOptions(opts, frame) ==
    IF Len(frame.dependencies) = 0 THEN opts
    ELSE [opts EXCEPT !.depth = opts.depth, !.progress = opts.progress]

ManifestKey(m) == Key(m.name, m.version)

\* a second filter that drops failed requests and nothing else
SecondFilterNoMemo(settled, cache) ==
    SelectFn(settled, LAMBDA m : m # Undefined)

\* line 138: the second filter
SecondFilter(settled, cache) ==
    SelectFn(settled,
        LAMBDA m : m # Undefined /\ ~CacheGet(cache, m.name, m.version))

Entry(m) == [name |-> m.name, version |-> m.version, isLatest |-> m.isLatest]

(***************************************************************************)
(* Actions                                                                 *)
(***************************************************************************)
\* the process has loaded the modules (lib/cache.js 350-353: an empty memo)
\* and holds a manifest and the switches of the calls it will make
\* no call of that kind has been made
Idle == [status |-> "idle"]

InitWith(manifests, flags) ==
    /\ dbCache = << >>
    /\ download = Idle
    /\ publish = Idle
    /\ cli = Idle
    /\ naming = Idle
    /\ distLatest \in FullVersions
    /\ registry = [n \in Nodes |-> Unknown]
    /\ rootManifest \in manifests
    /\ resolvedPackages = {}
    /\ options \in { [dev |-> f.dev, peer |-> f.peer, optional |-> f.optional,
                       depth |-> 0, progress |-> Zero] : f \in flags }
    /\ stack = << >>
    /\ status = "idle"
    /\ result = << >>
    /\ runs = 0
    /\ startMemo = {}
    /\ faults = 0
    /\ edgeLog = {}
    /\ lastFetch = Undefined

Init == InitWith(RootMenu, FlagMenu)

\* a top-level resolveDependencies(rootManifest, {dev, peer, optional}) on a
\* fresh options object, with the memo as given
StartWith(cache) ==
    /\ status \in {"idle", "fulfilled"}
    /\ runs < MaxRuns
    /\ \E fresh \in {[options EXCEPT !.depth = 0, !.progress = Zero]} :
       \E frame \in {Enter(RootId, rootManifest, fresh, cache)} :
        /\ runs' = runs + 1
        /\ resolvedPackages' = cache
        /\ startMemo' = cache
        /\ options' = EnterOptions(fresh, frame)
        /\ rootManifest' = frame.manifest
        /\ stack' = <<frame>>
        /\ status' = "running"
        /\ result' = << >>
        /\ edgeLog' = SkippedEdges(frame)
        /\ lastFetch' = Undefined
        /\ UNCHANGED <<cli, dbCache, download, publish, naming, distLatest, registry, faults>>

\* cli.js 127-138: the fetch command of a process started as the command
\* line tool: resolvedPackages.clean() and then resolveDependencies
StartCLI ==
    /\ runs = 0
    /\ StartWith(CacheClean)

\* part_000: the exported resolveDependencies, called by a program that
\* required the package; it may call again once a call has returned
StartAPI ==
    StartWith(resolvedPackages)

\* Bluebird.map: a slot takes the value its promise fulfils with; one
\* rejected promise rejects the whole chain, and so the call
Settle(i, value) ==
    IF value = Rejection
    THEN /\ status' = "rejected"
         /\ stack' = << >>
    ELSE /\ status' = status
         /\ stack' = [stack EXCEPT ![Len(stack)].settled[i] = value]

\* line 136: the getPackageManifest of one edge settles
FetchSettle ==
    /\ status = "running"
    /\ Top.pc = "fetch"
    /\ \E i \in 1..Len(Top.toFetch), env \in Envs :
        \E d \in {Top.toFetch[i]} :
         \E r \in {GetPackageManifest(d.name, d.version, env)} :
             /\ Top.settled[i] = Pending
             /\ EnvFits(env, r)
             /\ faults + NumFaults(env) <= MaxFaults
             /\ faults' = faults + NumFaults(env)
             /\ lastFetch' = r
             /\ IF r.outcome.ok
                THEN \E node \in {<<d.name, r.outcome.version>>} :
                         \E body \in (IF registry[node] = Unknown THEN ManifestMenu
                                      ELSE {registry[node]}) :
                          \E manifest \in
                                {[name |-> d.name,
                                  version |-> <<r.outcome.version>>,
                                  isLatest |-> r.outcome.isLatest,
                                  dependencies |-> body.dependencies,
                                  devDependencies |-> body.devDependencies,
                                  peerDependencies |-> body.peerDependencies,
                                  optionalDependencies |-> body.optionalDependencies]} :
                               /\ registry' = [registry EXCEPT ![node] = body]
                               /\ Settle(i, CatchHandlerError(r.outcome, manifest))
                               /\ edgeLog' = edgeLog \cup
                                     {[from |-> Top.id, name |-> d.name,
                                       version |-> d.version, kind |-> "ok",
                                       to |-> manifest.version]}
                ELSE /\ registry' = registry
                     /\ Settle(i, CatchHandlerError(r.outcome, Undefined))
                     /\ edgeLog' = edgeLog \cup
                           {[from |-> Top.id, name |-> d.name,
                             version |-> d.version, kind |-> "failed", to |-> << >>]}
    /\ UNCHANGED <<cli, dbCache, download, publish, naming, distLatest, rootManifest, resolvedPackages, options,
                   result, runs, startMemo>>

\* a second filter that runs on the requests settled so far, without
\* waiting for the others
FilterEachEarly ==
    /\ status = "running"
    /\ Top.pc = "fetch"
    /\ LET survivors == SecondFilter(SelectFn(Top.settled, LAMBDA m : m # Pending),
                                     resolvedPackages)
       IN  /\ resolvedPackages' = CacheSetAll(resolvedPackages, survivors, 1)
           /\ stack' = [stack EXCEPT ![Len(stack)].survivors = survivors,
                                     ![Len(stack)].idx = 1,
                                     ![Len(stack)].pc = "reduce"]
    /\ lastFetch' = Undefined
    /\ UNCHANGED <<cli, dbCache, download, publish, naming, distLatest, registry, rootManifest, options, status, result,
                   runs, startMemo, faults, edgeLog>>

\* lines 138-143: every request of the level has settled; second filter,
\* then .each marks the surviving manifests in the memo
FilterEach ==
    /\ status = "running"
    /\ Top.pc = "fetch"
    /\ \A i \in 1..Len(Top.settled) : Top.settled[i] # Pending
    /\ LET survivors == SecondFilter(Top.settled, resolvedPackages)
       IN  /\ resolvedPackages' = CacheSetAll(resolvedPackages, survivors, 1)
           /\ stack' = [stack EXCEPT ![Len(stack)].survivors = survivors,
                                     ![Len(stack)].idx = 1,
                                     ![Len(stack)].pc = "reduce"]
    /\ lastFetch' = Undefined
    /\ UNCHANGED <<cli, dbCache, download, publish, naming, distLatest, registry, rootManifest, options, status, result,
                   runs, startMemo, faults, edgeLog>>

\* lines 146-147: the reducer pushes the entry of the current manifest and
\* calls resolveDependencies on it with the shared options, depth raised
ReduceCall ==
    /\ status = "running"
    /\ Top.pc = "reduce"
    /\ Top.idx <= Len(Top.survivors)
    /\ \E currManifest \in {Top.survivors[Top.idx]} :
       \E assigned \in {[options EXCEPT !.depth = options.depth + 1]} :
       \E frame \in {Enter(ManifestKey(currManifest), currManifest, assigned,
                           resolvedPackages)} :
           /\ options' = EnterOptions(assigned, frame)
           /\ stack' = Append(
                 [stack EXCEPT ![Len(stack)].packages =
                                   Append(Top.packages, Entry(currManifest)),
                               ![Len(stack)].pc = "await"],
                 frame)
           /\ edgeLog' = edgeLog \cup SkippedEdges(frame)
    /\ UNCHANGED <<cli, dbCache, download, publish, naming, distLatest, registry, rootManifest, resolvedPackages, status, result,
                   runs, startMemo, faults, lastFetch>>

\* lines 127-129 and 159: the value a finished activation returns
Returned(frame) == frame.packages

\* a reducer that forgets what its child call returned
ResumeDropChild(parent, opts, childResult) ==
    [frame |-> [parent EXCEPT !.idx = parent.idx + 1, !.pc = "reduce"],
     options |-> opts]

\* a reducer that puts what its child call returned in front
ResumePrepend(parent, opts, childResult) ==
    [frame |-> [parent EXCEPT !.packages = childResult \o parent.packages,
                              !.idx = parent.idx + 1,
                              !.pc = "reduce"],
     options |-> opts]

\* lines 149-155: the reducer resumes after its child call has returned
Resume(parent, opts, childResult) ==
    [frame |-> [parent EXCEPT !.packages = parent.packages \o childResult,
                              !.idx = parent.idx + 1,
                              !.pc = "reduce"],
     options |-> IF opts.depth = 0
                 THEN [opts EXCEPT !.progress =
                          AddFraction(opts.progress, Len(parent.dependencies))]
                 ELSE opts]

\* an activation returns: to the reducer that awaits it, or to the caller
Return ==
    /\ status = "running"
    /\ \/ Top.pc = "return"
       \/ Top.pc = "reduce" /\ Top.idx > Len(Top.survivors)
    /\ IF Len(stack) = 1
       THEN /\ status' = "fulfilled"
            /\ result' = Returned(Top)
            /\ stack' = << >>
            /\ options' = options
       ELSE LET resumed == Resume(stack[Len(stack) - 1], options, Returned(Top))
            IN  /\ stack' = [SubSeq(stack, 1, Len(stack) - 1)
                                EXCEPT ![Len(stack) - 1] = resumed.frame]
                /\ options' = resumed.options
                /\ UNCHANGED <<status, result>>
    /\ UNCHANGED <<cli, dbCache, download, publish, naming, distLatest, registry, rootManifest, resolvedPackages, runs, startMemo, faults, edgeLog, lastFetch>>

Next ==
    \/ StartCLI
    \/ StartAPI
    \/ FetchSettle
    \/ FilterEach
    \/ ReduceCall
    \/ Return

Spec == Init /\ [][Next]_vars

\* the scheduler runs every ready continuation and, as the claims on
\* termination suppose, every request settles; nobody has to call again
FairSpec ==
    /\ Spec
    /\ WF_vars(FetchSettle)
    /\ WF_vars(FilterEach)
    /\ WF_vars(ReduceCall)
    /\ WF_vars(Return)

(***************************************************************************)
(* getManifestDependencies on its own: any manifest, any switches          *)
(***************************************************************************)
MergeSpecifiers == { <<"1.0.0">>, <<"^", "1.1.0">> }

CategoryMenu ==
    {<< >>}
        \cup { << <<"a", s>> >> : s \in MergeSpecifiers }
        \cup { << <<"b", s>>, <<"a", t>> >> : s \in MergeSpecifiers, t \in MergeSpecifiers }

MergeInit ==
    InitWith({ Body(deps, dev, peer, opt) :
                 deps \in CategoryMenu, dev \in CategoryMenu,
                 peer \in CategoryMenu, opt \in CategoryMenu },
             [dev : BOOLEAN, peer : BOOLEAN, optional : BOOLEAN])

MergeNext == StartAPI

MergeSpec == MergeInit /\ [][MergeNext]_vars

(***************************************************************************)
(* Vocabulary of the properties                                            *)
(***************************************************************************)
EntryKey(e) == Key(e.name, e.version)

ResultKeys == { EntryKey(e) : e \in Range(result) }

Count(list, k) == Cardinality({ i \in 1..Len(list) : EntryKey(list[i]) = k })

NoDuplicates(list) ==
    \A i, j \in 1..Len(list) : i # j => EntryKey(list[i]) # EntryKey(list[j])

MissingKey == <<"missing">>

\* the manifest a key stands for, as the registry serves it
ManifestOfKey(k) ==
    IF k = RootId THEN rootManifest
    ELSE IF Len(k) = 3 /\ <<k[1], k[3]>> \in Nodes THEN registry[<<k[1], k[3]>>]
    ELSE Unknown

\* where the edges of one manifest led in the running call: the package
\* served when the request succeeded, nothing when it failed, the memoized
\* package when the edge was skipped
Targets(k) ==
    IF k = MissingKey \/ ManifestOfKey(k) = Unknown THEN {}
    ELSE UNION {
           LET es == { e \in edgeLog :
                         e.from = k /\ e.name = d.name /\ e.version = d.version }
           IN  IF es = {} THEN {MissingKey}
               ELSE { Key(e.name, e.to) : e \in { x \in es : x.kind # "failed" } } :
           d \in Range(GetManifestDependencies(ManifestOfKey(k), options)) }

RECURSIVE Closure(_, _)
Closure(frontier, seen) ==
    IF frontier = {} THEN seen
    ELSE LET k == CHOOSE x \in frontier : TRUE
         IN  Closure((frontier \cup Targets(k)) \ (seen \cup {k}), seen \cup {k})

\* the packages reachable from the root manifest
Reach == Closure(Targets(RootId), {})

\* k lies on a dependency cycle
OnCycle(k) == k \in Closure(Targets(k), {})

FreshRunDone == status = "fulfilled" /\ startMemo = {}

(***************************************************************************)
(* Properties                                                              *)
(***************************************************************************)

\* C1: a call that starts with an empty memo returns a list in which no
\* (name, version) pair occurs twice.
C1_NoDuplicates == FreshRunDone => NoDuplicates(result)

\* a returned list of a fresh call in which two different edges were served
\* the same package, so that the second filter had to drop one
C1_Witness ==
    /\ FreshRunDone
    /\ Len(result) >= 2
    /\ \E e1, e2 \in edgeLog :
         /\ e1 # e2
         /\ e1.kind = "ok" /\ e2.kind = "ok"
         /\ e1.name = e2.name /\ e1.to = e2.to

\* the list a fresh call returns holds each reachable package that lies on a
\* dependency cycle exactly once
C2_CycleOnce ==
    FreshRunDone => \A k \in Reach : OnCycle(k) => Count(result, k) = 1

\* C2: every running call returns (every request settling), and the list a
\* fresh call returns holds each reachable package that lies on a dependency
\* cycle exactly once.
C2_TerminatesCycleOnce ==
    /\ (status = "running") ~> (status = "fulfilled")
    /\ []C2_CycleOnce

\* a fresh call has returned and two different packages depend on each other
C2_Witness ==
    /\ FreshRunDone
    /\ \E k1, k2 \in Reach :
         /\ k1 # k2
         /\ k2 \in Closure(Targets(k1), {})
         /\ k1 \in Closure(Targets(k2), {})

\* C3: a call never rejects; when a fresh call returns, every root edge whose
\* request succeeded has its package and the whole subtree of that package in
\* the list, and a root edge whose request failed has left no entry: the list
\* names its package only when another edge was served it.
C3_PartialFailure ==
    /\ status # "rejected"
    /\ FreshRunDone =>
         \A e \in { x \in edgeLog : x.from = RootId } :
            /\ e.kind = "ok" => Closure({Key(e.name, e.to)}, {}) \subseteq ResultKeys
            /\ ( /\ e.kind = "failed"
                 /\ ~\E o \in edgeLog : o.kind = "ok" /\ o.name = e.name )
               => ~\E r \in Range(result) : r.name = e.name

\* root edges A, B, C where B failed and A and C succeeded, A with a subtree
C3_Witness ==
    /\ FreshRunDone
    /\ LET root == { x \in edgeLog : x.from = RootId }
       IN  /\ Cardinality({ x \in root : x.kind = "ok" }) = 2
           /\ \E b \in root :
                /\ b.kind = "failed"
                /\ ~\E r \in Range(result) : r.name = b.name
           /\ \E a \in root :
                a.kind = "ok" /\ Cardinality(Closure({Key(a.name, a.to)}, {})) > 1

\* C4: the list a fresh call returns holds exactly the packages reachable
\* from the root manifest over the enabled categories along edges whose
\* request succeeded; a root whose one dependency is a leaf gives one entry.
C4_ExactlyReachable ==
    FreshRunDone =>
        /\ ResultKeys = Reach
        /\ \A e \in edgeLog :
              ( /\ Len(GetManifestDependencies(rootManifest, options)) = 1
                /\ e.from = RootId /\ e.kind = "ok"
                /\ GetManifestDependencies(
                       ManifestOfKey(Key(e.name, e.to)), options) = << >> )
              => /\ Len(result) = 1
                 /\ result[1].name = e.name /\ result[1].version = e.to

\* a fresh call returned a package that only a package two edges down names
C4_Witness ==
    /\ FreshRunDone
    /\ Len(result) >= 3
    /\ \E e \in edgeLog : e.kind = "ok" /\ e.from # RootId
                          /\ ~\E x \in edgeLog : x.from = RootId /\ x.name = e.name

FracEq(p, q) == p.num * q.den = q.num * p.den

FracLeq(p, q) == p.num * q.den <= q.num * p.den

\* C6: during a call the progress fraction never decreases, it grows by
\* 1 / (number of depth-0 edges) when the subtree of a depth-0 edge is
\* complete, and it is 1 when the last one is.
C6_ProgressAccounting ==
    [][ /\ (status = "running" /\ status' = "running")
            => FracLeq(options.progress, options'.progress)
        /\ (status = "running" /\ Len(stack) = 2 /\ Len(stack') = 1)
            => FracEq(options'.progress,
                      AddFraction(options.progress, Len(stack'[1].dependencies)))
        /\ ( /\ status = "running" /\ status' = "fulfilled"
             /\ Len(stack[1].dependencies) > 0
             /\ Len(stack[1].survivors) = Len(stack[1].dependencies) )
            => FracEq(options'.progress, [num |-> 1, den |-> 1]) ]_vars

\* a specifier "^x.y.z" or "~x.y.z"
IsPrefixedVersion(raw) ==
    Len(raw) = 2 /\ raw[1] \in {"^", "~"} /\ SemverValid(Tail(raw))

\* C7: the version of an edge whose specifier is a prefixed concrete version
\* is the concrete version, in the memo check and in the request.
C7_StrippedVersionUsed ==
    \A n \in 1..Len(stack) :
        \A i \in 1..Len(stack[n].dependencies) :
            LET raw == stack[n].manifest.dependencies[i][2]
            IN  IsPrefixedVersion(raw) => stack[n].dependencies[i].version = Tail(raw)

\* the edges a manifest must give: one per name declared in an enabled
\* category, with the specifier of the last enabled category declaring it
EdgesByPrecedence(manifest, opts, edges) ==
    LET cats == << [on |-> TRUE, map |-> manifest.dependencies],
                   [on |-> opts.dev, map |-> manifest.devDependencies],
                   [on |-> opts.peer, map |-> manifest.peerDependencies],
                   [on |-> opts.optional, map |-> manifest.optionalDependencies] >>
        Declaring(n) == { c \in 1..4 : cats[c].on /\ n \in Keys(cats[c].map) }
        Last(S) == CHOOSE c \in S : \A x \in S : x <= c
        names == { n \in Names : Declaring(n) # {} }
    IN  /\ { d.name : d \in Range(edges) } = names
        /\ Len(edges) = Cardinality(names)
        /\ \A d \in Range(edges) :
              d.version = EdgeVersion(Get(cats[Last(Declaring(d.name))].map, d.name))

\* C8: the edges of a call are those of the enabled categories, a name
\* declared several times taking the specifier of the last enabled category
\* in the order dependencies, dev, peer, optional.
C8_MergePrecedence ==
    [][ /\ (status # "running" /\ status' = "running")
            => EdgesByPrecedence(rootManifest, options, stack'[1].dependencies)
        /\ (status = "running" /\ Len(stack') = Len(stack) + 1)
            => EdgesByPrecedence(Top.survivors[Top.idx], options,
                                 stack'[Len(stack')].dependencies) ]_vars

\* "a" is declared by dev (on) and by optional (off) with different
\* specifiers, and the edge has the one of dev
C8_Witness ==
    /\ status = "running"
    /\ options.dev /\ ~options.optional /\ ~options.peer
    /\ "a" \in Keys(rootManifest.devDependencies)
    /\ "a" \in Keys(rootManifest.optionalDependencies)
    /\ Get(rootManifest.devDependencies, "a") # Get(rootManifest.optionalDependencies, "a")
    /\ \E d \in Range(stack[1].dependencies) :
          d.name = "a" /\ d.version = EdgeVersion(Get(rootManifest.devDependencies, "a"))

\* C9: every top-level call starts with an empty memo.
C9_StartsWithEmptyMemo == status = "running" => startMemo = {}

\* C10: when the first manifest request of getPackageManifest fails with
\* E404: for a version other than "latest" exactly one more request is made,
\* for the unqualified name, and its outcome is the outcome of the manifest
\* request; for "latest" no further request is made and the fetch fails with
\* an error that names the package.
C10_NotFoundRetry ==
    (lastFetch # Undefined /\ ~lastFetch.first.ok /\ lastFetch.first.code = "E404") =>
        IF lastFetch.version # Latest
        THEN /\ lastFetch.requests = <<lastFetch.version, << >> >>
             /\ lastFetch.manifestOutcome = lastFetch.second
        ELSE /\ lastFetch.requests = <<Latest>>
             /\ ~lastFetch.outcome.ok
             /\ lastFetch.outcome.message[1] = lastFetch.name

\* a request for a concrete version met E404 and the retry was served
C10_Witness ==
    /\ lastFetch # Undefined
    /\ ~lastFetch.first.ok /\ lastFetch.first.code = "E404"
    /\ lastFetch.version # Latest
    /\ lastFetch.manifestOutcome.ok

\* the first manifest request of the last fetch failed with this code
FirstFailedWith(codes) ==
    /\ lastFetch # Undefined
    /\ ~lastFetch.first.ok
    /\ lastFetch.first.code \in codes

\* after ETARGET one more request is made, for name@<latest tag of the
\* error>, and the fetch returns the manifest of that request
RetriesLatestTag ==
    FirstFailedWith({"ETARGET"}) =>
        /\ lastFetch.requests =
              <<lastFetch.version, <<lastFetch.first.distTags.latest>> >>
        /\ lastFetch.manifestOutcome = lastFetch.second
        /\ lastFetch.outcome.ok => lastFetch.outcome.version = lastFetch.second.version

\* C11 as stated: ETARGET is retried with the latest tag; after any other
\* error that is not E404 no retry is made and the fetch fails with that
\* same error.
C11_OtherErrorSame ==
    /\ RetriesLatestTag
    /\ FirstFailedWith({"EOTHER"}) =>
          /\ lastFetch.requests = <<lastFetch.version>>
          /\ lastFetch.outcome = lastFetch.first

\* C11, amended: ETARGET is retried with the latest tag; after any other
\* error that is not E404 no retry is made, the manifest element of
\* Promise.all rejects with that same error and the fetch fails: with that
\* error, or with the error of the packument request when that one rejected
\* too and first.
C11_OtherErrorPropagates ==
    /\ RetriesLatestTag
    /\ FirstFailedWith({"EOTHER"}) =>
          /\ lastFetch.requests = <<lastFetch.version>>
          /\ lastFetch.manifestOutcome = lastFetch.first
          /\ ~lastFetch.outcome.ok
          /\ \/ lastFetch.outcome = lastFetch.first
             \/ /\ ~lastFetch.packument.ok
                /\ lastFetch.outcome = lastFetch.packument

\* a request met ETARGET and the fetch returned the manifest of the retry
C11_Witness ==
    /\ FirstFailedWith({"ETARGET"})
    /\ lastFetch.outcome.ok
    /\ lastFetch.outcome.version = lastFetch.first.distTags.latest

\* C12: a manifest returned for the version "latest" has isLatest true; a
\* manifest returned for any other version, from the first request or from
\* the retry after ETARGET or E404, has isLatest true exactly when its
\* version is the latest dist-tag of the package in the registry.
C12_IsLatest ==
    (lastFetch # Undefined /\ lastFetch.outcome.ok) =>
        IF lastFetch.version = Latest THEN lastFetch.outcome.isLatest
        ELSE lastFetch.outcome.isLatest
                <=> (lastFetch.outcome.version = DistTagLatest(lastFetch.name))

\* a version other than "latest" was asked for, the manifest came from the
\* retry and the tag listing says it is the latest of its package
C12_Witness ==
    /\ lastFetch # Undefined /\ lastFetch.outcome.ok
    /\ lastFetch.version # Latest
    /\ Len(lastFetch.requests) = 2
    /\ lastFetch.packumentAsked
    /\ lastFetch.outcome.isLatest

\* the package an edge of k was served in the running call, as a list of
\* at most one key
ServedKey(k, d) ==
    LET es == { e \in edgeLog : /\ e.from = k /\ e.kind = "ok"
                                /\ e.name = d.name /\ e.version = d.version }
    IN  IF es = {} THEN << >> ELSE <<Key(d.name, (CHOOSE e \in es : TRUE).to)>>

RECURSIVE ServedKeys(_, _, _)
ServedKeys(k, edges, i) ==
    IF i > Len(edges) THEN << >>
    ELSE ServedKey(k, edges[i]) \o ServedKeys(k, edges, i + 1)

\* the pre-order walk from k, given the packages seen so far: the packages
\* served to the edges of k, in the order of the merged dependency keys,
\* that were not seen before are the children; all of them count as seen
\* from here on; each child is listed, directly followed by the walk from it
RECURSIVE PreOrder(_, _), PreOrderChildren(_, _, _)
PreOrder(k, seen) ==
    With(SelectFn(GetManifestDependencies(ManifestOfKey(k), options),
                  LAMBDA d : Key(d.name, d.version) \notin seen),
         LAMBDA edges :
    With(SelectFn(ServedKeys(k, edges, 1), LAMBDA t : t \notin seen),
         LAMBDA children :
        PreOrderChildren(children, 1,
                         [list |-> << >>, seen |-> seen \cup Range(children)])))

PreOrderChildren(children, i, acc) ==
    IF i > Len(children) THEN acc
    ELSE With(PreOrder(children[i], acc.seen), LAMBDA sub :
             PreOrderChildren(children, i + 1,
                 [list |-> acc.list \o <<children[i]>> \o sub.list,
                  seen |-> sub.seen]))

\* C13: the list a fresh call returns is the pre-order walk of the packages
\* it was served: every package is directly followed by the entries of the
\* call on its own dependencies, all of them before its next sibling, and
\* siblings come in the order of the merged dependency keys.
C13_PreOrder ==
    FreshRunDone =>
        [i \in 1..Len(result) |-> EntryKey(result[i])] = PreOrder(RootId, {}).list

\* in a returned list a package is followed by a package of its own
\* dependencies and that one by the next sibling of the first
C13_Witness ==
    /\ FreshRunDone
    /\ \E i \in 1..Len(result) - 2 :
          /\ \E e \in edgeLog : /\ e.kind = "ok" /\ e.from = RootId
                                 /\ Key(e.name, e.to) = EntryKey(result[i])
          /\ \E e \in edgeLog : /\ e.kind = "ok" /\ e.from = EntryKey(result[i])
                                 /\ Key(e.name, e.to) = EntryKey(result[i + 1])
          /\ \E e \in edgeLog : /\ e.kind = "ok" /\ e.from = RootId
                                 /\ Key(e.name, e.to) = EntryKey(result[i + 2])
          /\ ~\E e \in edgeLog : /\ e.kind = "ok" /\ e.from = RootId
                                  /\ Key(e.name, e.to) = EntryKey(result[i + 1])

(***************************************************************************)
(* The resolver at rest, for the specifications of the other operations    *)
(***************************************************************************)
ResolverIdle ==
    /\ distLatest = "1.0.0"
    /\ registry = [n \in Nodes |-> Unknown]
    /\ rootManifest = Body(<< >>, << >>, << >>, << >>)
    /\ resolvedPackages = {}
    /\ options = [dev |-> FALSE, peer |-> FALSE, optional |-> FALSE,
                  depth |-> 0, progress |-> Zero]
    /\ stack = << >>
    /\ status = "idle"
    /\ result = << >>
    /\ runs = 0
    /\ startMemo = {}
    /\ faults = 0
    /\ edgeLog = {}
    /\ lastFetch = Undefined

(***************************************************************************)
(* lib/cache.js DBCache                                                    *)
(***************************************************************************)
Doc(packageName, versions) == [packageName |-> packageName, versions |-> versions]

\* the documents findOne({ packageName }) can give
DocsOf(db, packageName) ==
    { j \in 1..Len(db) : db[j].packageName = packageName }

\* an exist() that never finds a document
ExistNever(db, packageName, packagesVersion, err) == FALSE

\* exist(): findOne({ packageName, versions }) and resolve(!err && !!doc)
Exist(db, packageName, packagesVersion, err) ==
    /\ ~err
    /\ \E j \in DocsOf(db, packageName) : packagesVersion \in Range(db[j].versions)

\* add(), the insert branch
DbInsert(db, packageName, packagesVersion) ==
    Append(db, Doc(packageName, <<packagesVersion>>))

\* add(), the update branch: $push on the one document the query matches
DbPush(db, packageName, packagesVersion) ==
    LET j == CHOOSE x \in DocsOf(db, packageName) :
                 \A y \in DocsOf(db, packageName) : x <= y
    IN  [db EXCEPT ![j].versions = Append(@, packagesVersion)]

(***************************************************************************)
(* downloadPackages                                                        *)
(***************************************************************************)
MaxDownloads == 2    \* downloadPackages calls per behaviour

Pkg(name, version, isLatest) ==
    [name |-> name, version |-> <<version>>, isLatest |-> isLatest]

\* the packages arrays of the calls
PackagesMenu ==
    { << >>,
      << Pkg("a", "1.0.0", FALSE) >>,
      << Pkg("a", "1.0.0", FALSE), Pkg("b", "1.0.0", TRUE), Pkg("a", "1.1.0", TRUE) >>,
      << Pkg("b", "1.0.0", TRUE), Pkg("c", "1.0.0", TRUE) >> }

\* what the datastore file holds when the process starts
DbMenu ==
    { << >>,
      << Doc("a", << <<"1.0.0">> >>) >>,
      << Doc("b", << <<"1.0.0">> >>), Doc("a", << <<"1.1.0">>, <<"1.0.0">> >>) >> }

\* the concurrency a caller may ask for
ConcurrencyMenu == {1, 2}

\* the elements of s whose index is not in drop, in order
Without(s, drop) ==
    LET F[i \in 0..Len(s)] ==
            IF i = 0 THEN << >>
            ELSE IF i \in drop THEN F[i - 1] ELSE Append(F[i - 1], s[i])
    IN  F[Len(s)]

\* line 27: the indices Bluebird.filter drops, those whose exist() said true
InCache(db, packages, errs) ==
    { i \in 1..Len(packages) :
        Exist(db, packages[i].name, packages[i].version, i \in errs) }

\* line 30: Bluebird.map calls downloadPackageTarball for every element at once
StartAll(packagesToDownload) ==
    [i \in 1..Len(packagesToDownload) |-> "inflight"]

\* no call has been made
NoDownload ==
    [status |-> "idle", calls |-> 0, useCache |-> FALSE, concurrent |-> 1,
     packages |-> << >>, dbAtStart |-> << >>, existErrs |-> {},
     packagesToDownload |-> << >>, slots |-> << >>, cause |-> "none",
     result |-> << >>]

DownloadInit ==
    /\ ResolverIdle
    /\ dbCache \in DbMenu
    /\ download = NoDownload
    /\ publish = Idle
    /\ cli = Idle
    /\ naming = Idle

\* lines 20-27: the call, up to the await of the filter
DownloadPackages ==
    /\ download.status \in {"idle", "fulfilled"}
    /\ download.calls < MaxDownloads
    /\ \E packages \in PackagesMenu, useCache \in BOOLEAN,
          concurrent \in ConcurrencyMenu :
          download' =
              [status |-> IF useCache THEN "filter" ELSE "running",
               calls |-> download.calls + 1,
               useCache |-> useCache,
               concurrent |-> concurrent,
               packages |-> packages,
               dbAtStart |-> dbCache,
               existErrs |-> {},
               packagesToDownload |-> IF useCache THEN << >> ELSE packages,
               slots |-> IF useCache THEN << >> ELSE StartAll(packages),
               cause |-> "none",
               result |-> << >>]
    /\ UNCHANGED <<resolverVars, cli, dbCache, publish, naming>>

\* lines 27-31: every exist() has answered (a lookup that met a datastore
\* error answers false); the downloads of what is left start
ExistSettle ==
    /\ download.status = "filter"
    /\ \E errs \in { e \in SUBSET (1..Len(download.packages)) : Cardinality(e) <= 1 } :
         LET packagesToDownload ==
                 Without(download.packages, InCache(dbCache, download.packages, errs))
         IN  download' = [download EXCEPT
                 !.status = "running",
                 !.existErrs = errs,
                 !.packagesToDownload = packagesToDownload,
                 !.slots = StartAll(packagesToDownload)]
    /\ UNCHANGED <<resolverVars, cli, dbCache, publish, naming>>

\* lines 65-77 and 32-48: one tarball stream ends.  "finish": the file is
\* written and the promise resolves; "error": the pacote stream fails and
\* the promise rejects; "writeError": the write stream fails, which nothing
\* listens for, so the error is thrown as an uncaught exception
TarballSettle(i) ==
    /\ download.status = "running"
    /\ download.slots[i] = "inflight"
    /\ \E outcome \in {"finish", "error", "writeError"} :
         download' =
            CASE outcome = "finish" ->
                   [download EXCEPT !.slots[i] =
                        IF download.useCache THEN "adding" ELSE "fulfilled"]
              [] outcome = "error" ->
                   [download EXCEPT !.slots[i] = "rejected"]
              [] outcome = "writeError" ->
                   [download EXCEPT !.status = "crashed", !.cause = "write"]
    /\ UNCHANGED <<resolverVars, cli, dbCache, publish, naming>>

\* line 42 and DBCache.add 295-298: findOne({ packageName }) answers
AddFind(i) ==
    /\ download.status = "running"
    /\ download.slots[i] = "adding"
    /\ LET p == download.packagesToDownload[i]
           docs == DocsOf(dbCache, p.name)
       IN  \E err \in BOOLEAN :
             IF err
             THEN download' = [download EXCEPT !.status = "rejected", !.cause = "cache"]
             ELSE IF docs = {}
             THEN download' = [download EXCEPT !.slots[i] = "insert"]
             ELSE \E j \in docs :
                    download' = [download EXCEPT !.slots[i] =
                        IF p.version \in Range(dbCache[j].versions)
                        THEN "fulfilled" ELSE "update"]
    /\ UNCHANGED <<resolverVars, cli, dbCache, publish, naming>>

\* DBCache.add 300-320: the update or the insert is done
AddWrite(i) ==
    /\ download.status = "running"
    /\ download.slots[i] \in {"insert", "update"}
    /\ LET p == download.packagesToDownload[i]
       IN  dbCache' = IF download.slots[i] = "insert"
                      THEN DbInsert(dbCache, p.name, p.version)
                      ELSE DbPush(dbCache, p.name, p.version)
    /\ download' = [download EXCEPT !.slots[i] = "fulfilled"]
    /\ UNCHANGED <<resolverVars, cli, publish, naming>>

\* lines 51-53: .all() has every inspection
DownloadReturn ==
    /\ download.status = "running"
    /\ \A i \in 1..Len(download.slots) : download.slots[i] \in {"fulfilled", "rejected"}
    /\ download' = [download EXCEPT
          !.status = "fulfilled",
          !.result = [i \in 1..Len(download.slots) |->
                        [isFulfilled |-> download.slots[i] = "fulfilled",
                         name |-> download.packagesToDownload[i].name,
                         version |-> download.packagesToDownload[i].version]]]
    /\ UNCHANGED <<resolverVars, cli, dbCache, publish, naming>>

DownloadNext ==
    \/ DownloadPackages
    \/ ExistSettle
    \/ \E i \in 1..Len(download.slots) : TarballSettle(i)
    \/ \E i \in 1..Len(download.slots) : AddFind(i)
    \/ \E i \in 1..Len(download.slots) : AddWrite(i)
    \/ DownloadReturn

DownloadSpec == DownloadInit /\ [][DownloadNext]_vars

\* the downloads that have started and not ended
InFlight == { i \in 1..Len(download.slots) : download.slots[i] = "inflight" }

\* the chunk of the i-th download when they go in chunks of n
ChunkOf(i, n) == (i - 1) \div n

\* C14: downloads go in chunks of at most the configured concurrency: never
\* more than that many are in flight, and a download has started only if
\* every download of the chunks before its own has settled.
C14_BatchedDownloads ==
    download.status = "running" =>
        /\ Cardinality(InFlight) <= download.concurrent
        /\ \A i, j \in 1..Len(download.slots) :
              ( /\ ChunkOf(i, download.concurrent) < ChunkOf(j, download.concurrent)
                /\ download.slots[j] = "inflight" )
              => download.slots[i] \in {"fulfilled", "rejected"}

\* the datastore holds a document of the package that lists the version
Recorded(db, p) ==
    \E j \in 1..Len(db) :
        db[j].packageName = p.name /\ p.version \in Range(db[j].versions)

\* C15: with useCache on, a download is started only for packages whose
\* exist() answered false (the datastore held no record of them, or the
\* lookup met an error), and every package left out is one the datastore
\* records.
C15_OnlyUncached ==
    (download.status \in {"running", "fulfilled"} /\ download.useCache) =>
        \A i \in 1..Len(download.packages) :
            LET p == download.packages[i]
            IN  IF p \in Range(download.packagesToDownload)
                THEN ~Recorded(download.dbAtStart, p) \/ i \in download.existErrs
                ELSE Recorded(download.dbAtStart, p) /\ Recorded(dbCache, p)

\* a call with useCache on left one package out and downloads another
C15_Witness ==
    /\ download.status = "running" /\ download.useCache
    /\ download.existErrs = {}
    /\ Len(download.packagesToDownload) >= 1
    /\ Len(download.packagesToDownload) < Len(download.packages)
    /\ InFlight # {}

\* C16: a failed download takes nothing else down: the call neither dies
\* nor rejects because of it, the fulfilled result has one outcome per
\* package of the downloads started, and a package whose download failed is
\* not put in the datastore.
C16_FailureIsolated ==
    /\ download.status # "crashed"
    /\ download.status = "rejected" => download.cause = "cache"
    /\ download.status = "fulfilled" =>
          /\ Len(download.result) = Len(download.packagesToDownload)
          /\ \A i \in 1..Len(download.result) :
                /\ download.result[i].name = download.packagesToDownload[i].name
                /\ download.result[i].version = download.packagesToDownload[i].version
    /\ download.status \in {"running", "fulfilled"} =>
          \A i \in 1..Len(download.slots) :
             ( /\ download.slots[i] = "rejected"
               /\ Recorded(dbCache, download.packagesToDownload[i]) )
             => Recorded(download.dbAtStart, download.packagesToDownload[i])

(***************************************************************************)
(* Tarball file names.  A file name is a sequence of tokens as well: "-",  *)
(* "/", "@", ".", ".tgz" and "latest" are tokens of their own, and so is   *)
(* every run of digits and dots that starts with a digit ("64", "1.0.0")   *)
(* and every run of letters ("base", "beta").                              *)
(***************************************************************************)
\* tokens whose first character is a digit
DigitTokens == {"1.0.0", "10.2.1", "64", "6", "1"}

\* String.prototype.replace(tok, by): only the first occurrence is replaced
ReplaceWith(s, tok, by) ==
    LET i == IndexOf(s, tok, 1)
    IN  IF i = 0 THEN s ELSE SubSeq(s, 1, i - 1) \o by \o SubSeq(s, i + 1, Len(s))

\* fetch-packages.js line 72: the name of the file a tarball is written to
TarballFileName(name, version, isLatest) ==
    ReplaceWith(name, "/", <<"-">>) \o <<"-">> \o version
        \o (IF isLatest THEN <<"-", "latest">> ELSE << >>) \o <<".tgz">>

\* filename.endsWith('.tgz')
EndsWithTgz(filename) == Len(filename) >= 1 /\ filename[Len(filename)] = ".tgz"

\* the places where '-latest.tgz' occurs
LatestAt(filename) ==
    { i \in 1..Len(filename) - 2 :
        filename[i] = "-" /\ filename[i + 1] = "latest" /\ filename[i + 2] = ".tgz" }

Min(S) == CHOOSE x \in S : \A y \in S : x <= y

Max(S) == CHOOSE x \in S : \A y \in S : x >= y

\* npm-publish.js lines 104-109
ClearName(filename) ==
    LET at == LatestAt(filename)
        cleared == IF at = {} THEN filename
                   ELSE SubSeq(filename, 1, Min(at) - 1)
                           \o SubSeq(filename, Min(at) + 2, Len(filename))
    IN  IF Len(cleared) >= 1 /\ cleared[1] = "@"
        THEN ReplaceWith(cleared, "-", <<"/">>)
        ELSE cleared

\* String.prototype.match: null, or the match with its first group
NoMatch == [matched |-> FALSE]

Matched(group) == [matched |-> TRUE, group |-> group]

\* clearName.match(/(.*)-/): the group is the text before the last '-'
MatchName(clearName) ==
    LET dashes == { i \in 1..Len(clearName) : clearName[i] = "-" }
    IN  IF dashes = {} THEN NoMatch ELSE Matched(SubSeq(clearName, 1, Max(dashes) - 1))

\* clearName.match(/(\d.*).tgz/): the group is the text from the first digit
\* up to the last '.tgz'
MatchVersion(clearName) ==
    LET tgz == { i \in 1..Len(clearName) : clearName[i] = ".tgz" }
        digits == { i \in 1..Len(clearName) :
                      /\ clearName[i] \in DigitTokens
                      /\ \E t \in tgz : i < t }
    IN  IF digits = {} THEN NoMatch
        ELSE Matched(SubSeq(clearName, Min(digits), Max(tgz) - 1))

\* npm-publish.js lines 104-115: what publishTarball reads from a file name
\* that ends with .tgz; matchName.length and matchVersion.length throw a
\* TypeError when the match is null
ParseFileName(filename) ==
    LET clearName == ClearName(filename)
        matchName == MatchName(clearName)
        matchVersion == MatchVersion(clearName)
    IN  IF ~matchName.matched \/ ~matchVersion.matched
        THEN [threw |-> TRUE]
        ELSE [threw |-> FALSE,
              isLatest |-> LatestAt(filename) # {},
              packageName |-> matchName.group,
              packageVersion |-> matchVersion.group]

\* package names: plain, with a dash, with digits, scoped, scoped with a
\* dash in the scope, with digits and a dash
NameMenu ==
    { <<"pkg">>, <<"left", "-", "pad">>, <<"base", "64">>,
      <<"@", "scope", "/", "pkg">>, <<"@", "my", "-", "org", "/", "pkg">>,
      <<"es", "6", "-", "shim">>, <<"@", "types", "/", "node">> }

\* versions: plain, and prereleases
VersionMenu ==
    { <<"1.0.0">>, <<"10.2.1">>, <<"1.0.0", "-", "beta">>,
      <<"1.0.0", "-", "rc", ".", "1">> }

NamingInit ==
    /\ ResolverIdle
    /\ dbCache = << >>
    /\ download = Idle
    /\ publish = Idle
    /\ cli = Idle
    /\ naming \in [status : {"resolved"}, name : NameMenu, version : VersionMenu,
                   isLatest : BOOLEAN]

\* downloadPackageTarball writes the file of a resolved package
WriteTarball ==
    /\ naming.status = "resolved"
    /\ naming' = [status |-> "written", name |-> naming.name,
                  version |-> naming.version, isLatest |-> naming.isLatest,
                  filename |-> TarballFileName(naming.name, naming.version,
                                               naming.isLatest)]
    /\ UNCHANGED <<resolverVars, cli, dbCache, download, publish>>

\* publishTarball reads the name of that file
ReadTarballName ==
    /\ naming.status = "written"
    /\ EndsWithTgz(naming.filename)
    /\ naming' = [status |-> "read", name |-> naming.name,
                  version |-> naming.version, isLatest |-> naming.isLatest,
                  filename |-> naming.filename,
                  parsed |-> ParseFileName(naming.filename)]
    /\ UNCHANGED <<resolverVars, cli, dbCache, download, publish>>

NamingNext == WriteTarball \/ ReadTarballName

NamingSpec == NamingInit /\ [][NamingNext]_vars

\* C20: the name publishTarball reads from the file downloadPackageTarball
\* wrote gives back the name, the version and isLatest of the package.
C20_FileNameRoundTrip ==
    naming.status = "read" =>
        /\ ~naming.parsed.threw
        /\ naming.parsed.packageName = naming.name
        /\ naming.parsed.packageVersion = naming.version
        /\ naming.parsed.isLatest = naming.isLatest

(***************************************************************************)
(* publishFolder and publishTarball (npm-publish.js).  publish.slots holds *)
(* for every file of the folder the state of the promise publishTarball    *)
(* returned for it, before publishFolder's own .catch: "pending" (not      *)
(* called yet), "threw" (the call threw), "publishing", "republishing",    *)
(* "fulfilled" or "rejected"; its del field is the state of the delete of  *)
(* the file: "none" (not asked for), "deleting", "deleted" or "failed".    *)
(***************************************************************************)
\* what the npm publish command can end with
PublishOutcomes == {"ok", "EPUBLISHCONFLICT", "EPERM", "EOTHER"}

\* what republish can end with; "EEXTRACT" is a failure before it runs the
\* command (an Error, not a string)
RepublishOutcomes == {"ok", "EPUBLISHCONFLICT", "EOTHER", "EEXTRACT"}

\* isString(stderr) && stderr.includes('EPUBLISHCONFLICT')
IsConflict(stderr) == stderr = "EPUBLISHCONFLICT"

\* isString(stderr) && stderr.includes('EPERM: operation not permitted')
IsPermission(stderr) == stderr = "EPERM"

\* a handler that does not know the publish conflict
CatchPublishNoConflict(stderr) ==
    IF IsPermission(stderr) THEN "republishing" ELSE "rejected"

\* npm-publish.js lines 138-160: the .catch of the first attempt
CatchPublishError(stderr) ==
    IF IsConflict(stderr) THEN "fulfilled"
    ELSE IF IsPermission(stderr) THEN "republishing"
    ELSE "rejected"

\* npm-publish.js lines 151-156: the .catch of the republish attempt; for
\* an error that is no conflict the handler returns undefined
CatchRepublishError(err) ==
    IF IsConflict(err) THEN "fulfilled" ELSE "fulfilled"

\* the slot of a file publishTarball has not been called for
PendingSlot == [state |-> "pending", first |-> "none", second |-> "none",
                republishes |-> 0, del |-> "none"]

\* npm-publish.js lines 98-137: the call of publishTarball for one file, up
\* to the start of the command
CallPublishTarball(filename) ==
    IF ~EndsWithTgz(filename)
    THEN [state |-> "rejected", first |-> "notTgz", second |-> "none",
          republishes |-> 0, del |-> "none"]
    ELSE IF ParseFileName(filename).threw
    THEN [state |-> "threw", first |-> "TypeError", second |-> "none",
          republishes |-> 0, del |-> "none"]
    ELSE [state |-> "publishing", first |-> "none", second |-> "none",
          republishes |-> 0, del |-> "none"]

\* a chunk that holds every file
ChunkIndexOne(i, size) == 0

\* lodash chunk(files, size): the chunk (from 0) of the i-th file
ChunkIndex(i, size) == (i - 1) \div size

NumChunks(files, size) == (Len(files) + size - 1) \div size

GoodFile == <<"a", "-", "1.0.0", ".tgz">>

LatestFile == <<"b", "-", "1.0.0", "-", "latest", ".tgz">>

NotTgzFile == <<"notes", ".txt">>

NoDashFile == <<"package", ".tgz">>

NoDigitFile == <<"my", "-", "package", ".tgz">>

\* what readdir finds in the folder
FolderMenu ==
    { << >>,
      <<GoodFile, LatestFile>>,
      <<GoodFile, NotTgzFile, LatestFile>>,
      <<GoodFile, NoDashFile, LatestFile>>,
      <<NoDigitFile, GoodFile>>,
      <<GoodFile, LatestFile, NoDigitFile>> }

ConcurrentMenu == {1, 2}

NoPublish ==
    [status |-> "idle", files |-> << >>, concurrent |-> 1,
     delPackage |-> FALSE, chunk |-> 0, slots |-> << >>]

PublishInit ==
    /\ ResolverIdle
    /\ dbCache = << >>
    /\ download = Idle
    /\ publish = NoPublish
    /\ cli = Idle
    /\ naming = Idle

SlotSettled(s) == s.state \in {"fulfilled", "rejected"}

\* publishFolder up to the end of readdir (lines 171-173)
PublishFolder ==
    /\ publish.status = "idle"
    /\ \E files \in FolderMenu, concurrent \in ConcurrentMenu,
          delPackage \in BOOLEAN :
         publish' = [status |-> "running", files |-> files,
                     concurrent |-> concurrent, delPackage |-> delPackage,
                     chunk |-> 0,
                     slots |-> [i \in 1..Len(files) |-> PendingSlot]]
    /\ UNCHANGED <<resolverVars, cli, dbCache, download, naming>>

\* one turn of the loop (lines 175-182): publishTarball is called for the
\* files of the chunk in order; a call that throws ends the map and with it
\* publishFolder, which rejects
StartChunk ==
    /\ publish.status = "running"
    /\ publish.chunk < NumChunks(publish.files, publish.concurrent)
    /\ \A i \in 1..Len(publish.slots) :
         ChunkIndex(i, publish.concurrent) < publish.chunk
            => SlotSettled(publish.slots[i])
    /\ LET mine == { i \in 1..Len(publish.files) :
                       ChunkIndex(i, publish.concurrent) = publish.chunk }
           thrown == { i \in mine :
                         CallPublishTarball(publish.files[i]).state = "threw" }
           called == IF thrown = {} THEN mine
                     ELSE { i \in mine : i <= Min(thrown) }
       IN  publish' = [publish EXCEPT
                !.slots = [i \in 1..Len(publish.slots) |->
                              IF i \in called
                              THEN CallPublishTarball(publish.files[i])
                              ELSE publish.slots[i]],
                !.chunk = publish.chunk + 1,
                !.status = IF thrown = {} THEN "running" ELSE "rejected"]
    /\ UNCHANGED <<resolverVars, cli, dbCache, download, naming>>

\* the publish command of file i ends (lines 128-160); after a success
\* with delPackage the del command is started and not waited for
PublishSettle(i) ==
    /\ i \in 1..Len(publish.slots)
    /\ publish.slots[i].state = "publishing"
    /\ \E outcome \in PublishOutcomes :
         LET state == IF outcome = "ok" THEN "fulfilled"
                      ELSE CatchPublishError(outcome)
         IN  publish' = [publish EXCEPT
                  !.slots[i] = [state |-> state, first |-> outcome,
                                second |-> "none",
                                republishes |->
                                    IF state = "republishing" THEN 1 ELSE 0,
                                del |->
                                    IF outcome = "ok" /\ publish.delPackage
                                    THEN "deleting" ELSE "none"]]
    /\ UNCHANGED <<resolverVars, cli, dbCache, download, naming>>

\* republish of file i ends (lines 147-156, 193-226)
RepublishSettle(i) ==
    /\ i \in 1..Len(publish.slots)
    /\ publish.slots[i].state = "republishing"
    /\ \E outcome \in RepublishOutcomes :
         publish' = [publish EXCEPT
             !.slots[i].state = IF outcome = "ok" THEN "fulfilled"
                                ELSE CatchRepublishError(outcome),
             !.slots[i].second = outcome]
    /\ UNCHANGED <<resolverVars, cli, dbCache, download, naming>>

\* the del command of file i ends (lines 130-131)
DeleteSettle(i) ==
    /\ i \in 1..Len(publish.slots)
    /\ publish.slots[i].del = "deleting"
    /\ \E outcome \in {"deleted", "failed"} :
         publish' = [publish EXCEPT !.slots[i].del = outcome]
    /\ UNCHANGED <<resolverVars, cli, dbCache, download, naming>>

\* the loop is over (line 175): publishFolder fulfils
FolderReturn ==
    /\ publish.status = "running"
    /\ publish.chunk = NumChunks(publish.files, publish.concurrent)
    /\ \A i \in 1..Len(publish.slots) : SlotSettled(publish.slots[i])
    /\ publish' = [publish EXCEPT !.status = "fulfilled"]
    /\ UNCHANGED <<resolverVars, cli, dbCache, download, naming>>

PublishNext ==
    \/ PublishFolder
    \/ StartChunk
    \/ \E i \in 1..3 : PublishSettle(i)
    \/ \E i \in 1..3 : RepublishSettle(i)
    \/ \E i \in 1..3 : DeleteSettle(i)
    \/ FolderReturn

PublishSpec == PublishInit /\ [][PublishNext]_vars

\* the slots of the files of the folder
Slots == { publish.slots[i] : i \in 1..Len(publish.slots) }

\* C17: a publish command that fails with a publish conflict, on the first
\* attempt or on the republish attempt, leaves publishTarball fulfilled.
C17_ConflictFulfils ==
    \A s \in Slots :
        (IsConflict(s.first) \/ IsConflict(s.second)) => s.state = "fulfilled"

C17_Witness ==
    /\ \E s \in Slots : IsConflict(s.first) /\ s.state = "fulfilled"
    /\ \E s \in Slots :
         IsPermission(s.first) /\ IsConflict(s.second) /\ s.state = "fulfilled"

\* the file was not published, and not because it was there already
Unpublished(s) ==
    \/ s.first \in {"EOTHER", "notTgz", "TypeError"}
    \/ IsPermission(s.first) /\ s.second \in {"EOTHER", "EEXTRACT"}

\* C18: a permission failure is followed by exactly one republish attempt,
\* and publishTarball rejects when the file ends up unpublished for an
\* error that is no publish conflict.
C18_UnpublishedRejects ==
    \A s \in Slots :
        /\ s.republishes = (IF IsPermission(s.first) THEN 1 ELSE 0)
        /\ (Unpublished(s) /\ s.state # "threw") => s.state = "rejected"

\* C19: when publishFolder is over, publishTarball has been called for
\* every file of the folder.
C19_EveryFileAttempted ==
    publish.status \in {"fulfilled", "rejected"} =>
        \A s \in Slots : s.state # "pending"

(***************************************************************************)
(* The memo and the requests of one call                                   *)
(***************************************************************************)
\* the keys the running call has put in the memo
MemoOfRun == resolvedPackages \ startMemo

\* the package the request that settled last was served
LastServedKey == Key(lastFetch.name, <<lastFetch.outcome.version>>)

\* C22: no manifest request of a call is served a package version whose key
\* the call had already put in the memo when the request was made.
C22_NoRefetch ==
    (lastFetch # Undefined /\ lastFetch.outcome.ok) =>
        LastServedKey \notin MemoOfRun

\* the requests of activation i that have not settled
PendingFetches(i) ==
    { j \in 1..Len(stack[i].settled) : stack[i].settled[j] = Pending }

\* C23: the manifest requests in flight all belong to the innermost
\* activation, which is fetching the edges of one manifest; an activation
\* that has called resolveDependencies for one of its packages has no
\* request in flight.
C23_OneLevelInFlight ==
    \A i \in 1..Len(stack) :
        PendingFetches(i) # {} => (i = Len(stack) /\ stack[i].pc = "fetch")

\* a package's dependencies are being fetched, some requests of the level
\* have settled and another has not
C23_Witness ==
    /\ Len(stack) >= 2
    /\ PendingFetches(Len(stack)) # {}
    /\ \E j \in 1..Len(Top.settled) : Top.settled[j] # Pending

\* the dependencies map the registry served for the manifest of a key
ServedDependencies(reg, k) == reg[<<k[1], k[3]>>].dependencies

\* C25: no step of a call changes the dependencies map of the root
\* manifest, and the manifest object of every activation holds the
\* dependencies map the registry served.
C25_ManifestsUnchanged ==
    [][ /\ rootManifest'.dependencies = rootManifest.dependencies
        /\ \A i \in 1..Len(stack') :
              stack'[i].id # RootId =>
                 stack'[i].manifest.dependencies
                    = ServedDependencies(registry', stack'[i].id)
      ]_vars

\* at most one document per package name
OneDocPerName(db) ==
    \A j, k \in 1..Len(db) : j # k => db[j].packageName # db[k].packageName

\* no document lists a version twice
NoRepeatedVersion(db) ==
    \A j \in 1..Len(db) :
        \A x, y \in 1..Len(db[j].versions) :
            x # y => db[j].versions[x] # db[j].versions[y]

\* the downloads of the call whose cache.add has completed
Added ==
    { i \in 1..Len(download.slots) :
        download.useCache /\ download.slots[i] = "fulfilled" }

AddedExist ==
    \A i \in Added :
        Exist(dbCache, download.packagesToDownload[i].name,
              download.packagesToDownload[i].version, FALSE)

\* C26: whatever the order in which the steps of concurrent add calls run,
\* the datastore has at most one document per package name, no document
\* lists a version twice, and exist is true for every added package.
C26_CacheConsistent ==
    /\ OneDocPerName(dbCache)
    /\ NoRepeatedVersion(dbCache)
    /\ AddedExist

\* the files whose publishTarball promise is not settled
PublishInFlight ==
    { i \in 1..Len(publish.slots) :
        publish.slots[i].state \in {"publishing", "republishing"} }

PublishedNow(s) == s.first = "ok" \/ s.second = "ok"

\* C27: with delPackage, when publishFolder has settled every file that was
\* published has been deleted; and a delete is only ever started for a file
\* that was published.
C27_DeletesDone ==
    /\ (publish.delPackage /\ publish.status \in {"fulfilled", "rejected"}) =>
          \A s \in Slots : PublishedNow(s) => s.del = "deleted"
    /\ \A s \in Slots : s.del # "none" => PublishedNow(s)

(***************************************************************************)
(* The command line tool (cli.js): the action of the fetch and of the      *)
(* publish command is a try block of steps and a catch.                    *)
(***************************************************************************)
\* where the packages of a fetch come from (lines 62-103)
FetchInputs == {"packageJson", "packages", "top"}

\* what the path of a publish is (lines 222-242)
PathKinds == {"tar", "tgz", "folder"}

\* the steps of the fetch action that run for the given options, in order
FetchSteps(input, tar, dest) ==
    (CASE input = "packageJson" -> <<"readPackageJson">>
       [] input = "packages" -> << >>
       [] input = "top" -> <<"getNpmTopPackages">>)
    \o <<"mkdirSync", "resolveDependencies", "downloadPackages">>
    \o (IF tar THEN <<"create">> ELSE << >>)
    \o (IF tar /\ ~dest THEN <<"rimraf">> ELSE << >>)

\* the steps of the publish action that run for the given options, in order
PublishSteps(kind, skipLogin, delPackage) ==
    <<"existsSync">>
    \o (IF skipLogin THEN << >> ELSE <<"npmLogin">>)
    \o (CASE kind = "tar" -> <<"extract", "publishFolder">>
          [] kind = "tgz" -> <<"publishTarball">>
          [] kind = "folder" -> <<"publishFolder">>)
    \o (IF kind = "tar" /\ delPackage THEN <<"readdirSync">> ELSE << >>)

NoError == [thrown |-> FALSE, isError |-> FALSE, at |-> "none"]

\* an Error object, which has a message
ErrorAt(step) == [thrown |-> TRUE, isError |-> TRUE, at |-> step]

\* the stderr text of a failed command, a string
StderrAt(step) == [thrown |-> TRUE, isError |-> FALSE, at |-> step]

\* what a step can throw or reject with.  resolveDependencies catches the
\* failures of its requests; downloadPackages rejects when cache.add does;
\* publishFolder rejects when publishTarball throws; publishTarball rejects
\* with an Error for a file that is no .tgz and with stderr for a failed
\* command
Throws(step) ==
    CASE step = "resolveDependencies" -> {}
      [] step = "publishTarball" -> {ErrorAt(step), StderrAt(step)}
      [] OTHER -> {ErrorAt(step)}

NothingPrinted == [text |-> "none", of |-> "none"]

\* lines 188-190 and 243-245: the catch prints error.message when there is
\* one and the error itself otherwise
CatchPrints(error) ==
    [text |-> IF error.isError THEN "message" ELSE "value", of |-> error.at]

\* the exit status of the process: the catch sets none and nothing calls
\* process.exit, so node ends with 0 when the action has returned
ExitStatus(error) == 0

NoCli ==
    [status |-> "idle", command |-> "none", options |-> << >>, steps |-> << >>,
     error |-> NoError, printed |-> NothingPrinted, exitStatus |-> -1]

CliInit ==
    /\ ResolverIdle
    /\ dbCache = << >>
    /\ download = Idle
    /\ publish = Idle
    /\ naming = Idle
    /\ cli = NoCli

\* npo fetch ... (lines 46-60)
FetchCommand ==
    /\ cli.status = "idle"
    /\ \E input \in FetchInputs, tar \in BOOLEAN, dest \in BOOLEAN :
         cli' = [NoCli EXCEPT !.status = "running", !.command = "fetch",
                              !.options = <<input, tar, dest>>,
                              !.steps = FetchSteps(input, tar, dest)]
    /\ UNCHANGED <<resolverVars, dbCache, download, publish, naming>>

\* npo publish <path> (lines 205-206)
PublishCommand ==
    /\ cli.status = "idle"
    /\ \E kind \in PathKinds, skipLogin \in BOOLEAN, delPackage \in BOOLEAN :
         cli' = [NoCli EXCEPT !.status = "running", !.command = "publish",
                              !.options = <<kind, skipLogin, delPackage>>,
                              !.steps = PublishSteps(kind, skipLogin, delPackage)]
    /\ UNCHANGED <<resolverVars, dbCache, download, publish, naming>>

\* the next step of the try block goes through
StepDone ==
    /\ cli.status = "running"
    /\ cli.steps # << >>
    /\ cli' = [cli EXCEPT !.steps = Tail(cli.steps),
                          !.status = IF Len(cli.steps) = 1 THEN "returned"
                                     ELSE "running"]
    /\ UNCHANGED <<resolverVars, dbCache, download, publish, naming>>

\* the next step of the try block throws: the catch runs and the action
\* returns
StepThrows ==
    /\ cli.status = "running"
    /\ cli.steps # << >>
    /\ \E error \in Throws(Head(cli.steps)) :
         cli' = [cli EXCEPT !.status = "returned", !.error = error,
                            !.printed = CatchPrints(error)]
    /\ UNCHANGED <<resolverVars, dbCache, download, publish, naming>>

\* nothing is left to run and the process ends
ProcessExit ==
    /\ cli.status = "returned"
    /\ cli' = [cli EXCEPT !.status = "exited",
                          !.exitStatus = ExitStatus(cli.error)]
    /\ UNCHANGED <<resolverVars, dbCache, download, publish, naming>>

CliNext ==
    \/ FetchCommand
    \/ PublishCommand
    \/ StepDone
    \/ StepThrows
    \/ ProcessExit

CliSpec == CliInit /\ [][CliNext]_vars

\* C21: when an error has left the try block of a command, its message has
\* been printed and the process ends with a status other than 0.
C21_ErrorExitsNonZero ==
    (cli.status = "exited" /\ cli.error.thrown) =>
        /\ cli.printed.of = cli.error.at
        /\ cli.exitStatus # 0

====
